---- MODULE Spec2Model ----
(***************************************************************************)
(* Smullyanic Dynasty solver: the constraint encoder (add_constraints),    *)
(* the solve loop (solve_and_print) and the independent verifier (verify). *)
(* A cell is the pair <<i, j>>, rows and columns counted from 0 as in the  *)
(* source.  C[x] = TRUE means cell x is unshaded (a knight).               *)
(***************************************************************************)
EXTENDS Integers, Sequences, FiniteSets, TLC

VARIABLES
    nrow, ncol,     \* len(grid), len(grid[0])
    grid,           \* grid[<<i,j>>]: the clue of the cell, or NoClue
    slimit,         \* args.slimit: the solution cap, or NoLimit
    pc,             \* position of the main program
    slv,            \* the solver's store, as the set of shadings it still admits
    num_solutions,  \* solve_and_print's counter
    emitted,        \* the shadings printed so far, in order
    verified,       \* the shadings on which verify has returned without raising
    report,         \* the line solve_and_print prints after the loop
    Cin,            \* verify's argument C
    allow_weak,     \* verify's argument allow_weak
    vpc,            \* position inside verify
    err,            \* the exception verify raised, or NoError
    root,           \* verify's local root
    totalcount,     \* verify's local totalcount
    reached,        \* verify's local reached
    work,           \* verify's local work
    enc             \* the solver's answer with the C variables fixed to Cin

vars == <<nrow, ncol, grid, slimit, pc, slv, num_solutions, emitted, verified,
          report, Cin, allow_weak, vpc, err, root, totalcount, reached, work, enc>>

----------------------------------------------------------------------------
(* Bounds of the model *)

\* grids have at most MaxRow rows
MaxRow == 3
\* grids have at most MaxCol columns
MaxCol == 3
\* grids have at most MaxCells cells
MaxCells == 9
\* clues range over 0..MaxClue
MaxClue == 2
\* the cap ranges over 0..MaxLimit (and no cap)
MaxLimit == 2
\* whole runs of the program are explored on grids of at most MaxRunCells
\* cells, with every combination of clues; larger grids carry one clue at most
MaxRunCells == 4
\* the solve loop is explored up to MaxSolutions iterations
MaxSolutions == 16

\* grid[i][j] is None
NoClue == -1
\* args.slimit is None
NoLimit == -1

Cells(nr, nc) == (0 .. nr - 1) \X (0 .. nc - 1)

Shadings(nr, nc) == [Cells(nr, nc) -> BOOLEAN]

----------------------------------------------------------------------------
(* smullverify.py *)

\* get_neighbors: the unshaded neighbours of current, in the order appended
get_neighbors(current, C, nr, nc) ==
    LET i == current[1]
        j == current[2]
    IN  (IF i > 0 /\ C[<<i - 1, j>>] THEN {<<i - 1, j>>} ELSE {})
        \cup (IF i < nr - 1 /\ C[<<i + 1, j>>] THEN {<<i + 1, j>>} ELSE {})
        \cup (IF j > 0 /\ C[<<i, j - 1>>] THEN {<<i, j - 1>>} ELSE {})
        \cup (IF j < nc - 1 /\ C[<<i, j + 1>>] THEN {<<i, j + 1>>} ELSE {})

B2N(b) == IF b THEN 0 ELSE 1

\* knaves_in_domain: the shaded cells among (i,j) and its up to 8 neighbours
knaves_in_domain(i, j, C, nr, nc) ==
    B2N(C[<<i, j>>])
    + (IF i > 0
       THEN B2N(C[<<i - 1, j>>])
            + (IF j > 0 THEN B2N(C[<<i - 1, j - 1>>]) ELSE 0)
            + (IF j < nc - 1 THEN B2N(C[<<i - 1, j + 1>>]) ELSE 0)
       ELSE 0)
    + (IF i < nr - 1
       THEN B2N(C[<<i + 1, j>>])
            + (IF j > 0 THEN B2N(C[<<i + 1, j - 1>>]) ELSE 0)
            + (IF j < nc - 1 THEN B2N(C[<<i + 1, j + 1>>]) ELSE 0)
       ELSE 0)
    + (IF j > 0 THEN B2N(C[<<i, j - 1>>]) ELSE 0)
    + (IF j < nc - 1 THEN B2N(C[<<i, j + 1>>]) ELSE 0)

Idx(x, nc) == x[1] * nc + x[2]

\* the first element of a non-empty set of cells in the order of the
\* nested loops  for i in range(nrow): for j in range(ncol)
FirstCell(S, nc) == CHOOSE x \in S : \A y \in S : Idx(x, nc) <= Idx(y, nc)

NoError == [kind |-> "none", cells |-> <<>>, nums |-> <<>>]

LeftPair(x, C) == x[2] > 0 /\ ~C[x] /\ ~C[<<x[1], x[2] - 1>>]

UpPair(x, C) == x[1] > 0 /\ ~C[x] /\ ~C[<<x[1] - 1, x[2]>>]

\* the adjacency error printing the cell the scan stands on
AdjacentNamedSelf(x, C) == x

\* the cell the f-string of the adjacency error prints for the pair found at x
AdjacentNamed(x, C) ==
    IF LeftPair(x, C) THEN <<x[1], x[2] - 1>> ELSE <<x[1] - 1, x[2]>>

\* verify, first loop: shaded cells may not share an edge
AdjacencyCheck(C, nr, nc) ==
    LET hits == {x \in Cells(nr, nc) : LeftPair(x, C) \/ UpPair(x, C)}
    IN  IF hits = {} THEN NoError
        ELSE [kind |-> "adjacent shaded cells",
              cells |-> <<AdjacentNamed(FirstCell(hits, nc), C)>>,
              nums |-> <<>>]

ClueWrong(g, x, C, nr, nc) ==
    /\ g[x] # NoClue
    /\ \/ C[x] /\ g[x] # knaves_in_domain(x[1], x[2], C, nr, nc)
       \/ ~C[x] /\ g[x] = knaves_in_domain(x[1], x[2], C, nr, nc)

\* verify, second loop: unshaded clues count the knaves of their domain,
\* shaded clues do not
ClueCheck(g, C, nr, nc) ==
    LET hits == {x \in Cells(nr, nc) : ClueWrong(g, x, C, nr, nc)}
    IN  IF hits = {} THEN NoError
        ELSE LET x == FirstCell(hits, nc)
             IN  [kind |-> IF C[x] THEN "unshaded clue" ELSE "shaded clue",
                  cells |-> <<x>>,
                  nums |-> <<g[x], knaves_in_domain(x[1], x[2], C, nr, nc)>>]

\* verify, root selection: C[0][1] is read only when C[0][0] is false, and
\* is out of range on a grid of one column
RootCheck(C, nc) ==
    IF C[<<0, 0>>] THEN NoError
    ELSE IF nc < 2 THEN [kind |-> "IndexError", cells |-> <<>>, nums |-> <<>>]
    ELSE IF C[<<0, 1>>] THEN NoError
    ELSE [kind |-> "the first two cells of the first row are both shaded",
          cells |-> <<>>, nums |-> <<>>]

RootOf(C) == IF C[<<0, 0>>] THEN <<0, 0>> ELSE <<0, 1>>

\* verify up to the reachability check: the first exception raised, if any
VerifyPrefix(g, C, nr, nc) ==
    IF AdjacencyCheck(C, nr, nc) # NoError THEN AdjacencyCheck(C, nr, nc)
    ELSE IF ClueCheck(g, C, nr, nc) # NoError THEN ClueCheck(g, C, nr, nc)
    ELSE RootCheck(C, nc)

\* count of unshaded cells in the whole grid
TotalCount(C, nr, nc) == Cardinality({x \in Cells(nr, nc) : C[x]})

\* one iteration of  while len(work) > 0  with current the popped cell
WorkAfter(current, rch, wrk, C, nr, nc) ==
    (wrk \ {current})
    \cup {cell \in get_neighbors(current, C, nr, nc) :
             cell \notin (rch \cup {current})}

RECURSIVE Traverse(_, _, _, _, _)
\* the whole while loop, popping in one fixed order; n is the pair of
\* reached and work after the iteration
Traverse(rch, wrk, C, nr, nc) ==
    IF wrk = {} THEN rch
    ELSE CHOOSE out \in
            {Traverse(n[1], n[2], C, nr, nc) :
                n \in {<<rch \cup {current},
                         WorkAfter(current, rch, wrk, C, nr, nc)>> :
                          current \in {FirstCell(wrk, nc)}}} : TRUE

ReachedError(n, total) ==
    [kind |-> "reached cells instead of", cells |-> <<>>, nums |-> <<n, total>>]

\* verify(grid, C, allow_weak): the exception raised, or NoError on return
verify(g, C, weak, nr, nc) ==
    IF VerifyPrefix(g, C, nr, nc) # NoError THEN VerifyPrefix(g, C, nr, nc)
    ELSE IF weak THEN NoError
    ELSE LET n == Cardinality(Traverse({}, {RootOf(C)}, C, nr, nc))
         IN  IF n # TotalCount(C, nr, nc)
             THEN ReachedError(n, TotalCount(C, nr, nc))
             ELSE NoError

----------------------------------------------------------------------------
(* smull.py: add_constraints.  H[x] and V[x] are the pairs of booleans of   *)
(* cell x (indices 0 and 1), P[x] its parity flag.  K is the set of cells  *)
(* whose H, V and P are assigned: a clause constrains an assignment once   *)
(* all the cells it reads are in K.  With K the whole grid the clauses are *)
(* the formula the solver holds.                                           *)

Edge == [{0, 1} -> BOOLEAN]

NoEdge == [k \in {0, 1} |-> FALSE]

N1(b) == IF b THEN 1 ELSE 0

absent_edge(a) == ~a[0] /\ ~a[1]

legal_edge(a) == ~a[0] \/ ~a[1]

IsRootCell(i, j) == i = 0 /\ (j = 0 \/ j = 1)

\* slv.add(Or(C[0][0], C[0][1]))
RootClause(C) == C[<<0, 0>>] \/ C[<<0, 1>>]

\* neighbor constraints added at (i,j): no two shaded cells share an edge
NeighborClauses(i, j, C, nr, nc) ==
    /\ (i < nr - 1) => (C[<<i, j>>] \/ C[<<i + 1, j>>])
    /\ (j < nc - 1) => (C[<<i, j>>] \/ C[<<i, j + 1>>])

\* PbEq over the four arrow bits of (i,j), k = 1
ExactlyOneArrow(x, H, V) ==
    N1(H[x][0]) + N1(H[x][1]) + N1(V[x][0]) + N1(V[x][1]) = 1

\* connectivity clauses added at (i,j) that read only the cell's own H, V
TreeClausesOwn(i, j, C, H, V, nr, nc) ==
    LET x == <<i, j>>
    IN  /\ legal_edge(H[x]) /\ legal_edge(V[x])
        /\ IF IsRootCell(i, j)
           THEN C[x] => (absent_edge(H[x]) /\ absent_edge(V[x]))
           ELSE /\ C[x] => ExactlyOneArrow(x, H, V)
                /\ IF j > 0 THEN (C[x] /\ H[x][0]) => C[<<i, j - 1>>]
                            ELSE ~H[x][0]
                /\ IF j < nc - 1 THEN (C[x] /\ H[x][1]) => C[<<i, j + 1>>]
                                 ELSE ~H[x][1]
                /\ IF i > 0 THEN (C[x] /\ V[x][1]) => C[<<i - 1, j>>]
                            ELSE ~V[x][1]
                /\ IF i < nr - 1 THEN (C[x] /\ V[x][0]) => C[<<i + 1, j>>]
                                 ELSE ~V[x][0]

\* add_constraints without the clauses against mutual pointing
TreeClausesPairOmitted(i, j, H, V, K, nr, nc) == TRUE

\* connectivity clauses added at (i,j) that read a neighbour's H or V:
\* two cells may not point to each other
TreeClausesPair(i, j, H, V, K, nr, nc) ==
    LET x == <<i, j>>
    IN  IsRootCell(i, j) \/
        /\ (j > 0 /\ <<i, j - 1>> \in K) => (H[x][0] => ~H[<<i, j - 1>>][1])
        /\ (j < nc - 1 /\ <<i, j + 1>> \in K) => (H[x][1] => ~H[<<i, j + 1>>][0])
        /\ (i > 0 /\ <<i - 1, j>> \in K) => (V[x][1] => ~V[<<i - 1, j>>][0])
        /\ (i < nr - 1 /\ <<i + 1, j>> \in K) => (V[x][0] => ~V[<<i + 1, j>>][1])

\* the parity clauses with == in rightup and upright, as in the other ten
ParityAllEqual(i, j, H, V, P, K, nr, nc) ==
    LET x == <<i, j>>
        l == <<i, j - 1>>
        r == <<i, j + 1>>
        u == <<i - 1, j>>
        d == <<i + 1, j>>
    IN  /\ (j > 0 /\ j < nc - 1) =>
            /\ l \in K => ((H[l][1] /\ H[x][1]) => (P[l] = P[x]))    \* rightright
            /\ r \in K => ((H[r][0] /\ H[x][0]) => (P[r] = P[x]))    \* leftleft
        /\ (i > 0 /\ i < nr - 1) =>
            /\ u \in K => ((V[u][0] /\ V[x][0]) => (P[u] = P[x]))    \* downdown
            /\ d \in K => ((V[d][1] /\ V[x][1]) => (P[d] = P[x]))    \* upup
        /\ (j < nc - 1 /\ i > 0) =>
            /\ r \in K => ((H[r][0] /\ V[x][1]) => (P[r] = P[x]))    \* leftup
            /\ u \in K => ((V[u][0] /\ H[x][1]) => (P[u] = P[x]))    \* downright
        /\ (i < nr - 1 /\ j > 0) =>
            /\ d \in K => ((V[d][1] /\ H[x][0]) => (P[d] = P[x]))    \* upleft
            /\ l \in K => ((H[l][1] /\ V[x][0]) => (P[l] = P[x]))    \* rightdown
        /\ (i > 0 /\ j > 0) =>
            /\ u \in K => ((V[u][0] /\ H[x][0]) => (P[u] = P[x]))    \* downleft
            /\ l \in K => ((H[l][1] /\ V[x][1]) => (P[l] = P[x]))    \* rightup
        /\ (j < nc - 1 /\ i < nr - 1) =>
            /\ r \in K => ((H[r][0] /\ V[x][0]) => (P[r] = P[x]))    \* leftdown
            /\ d \in K => ((V[d][1] /\ H[x][1]) => (P[d] = P[x]))    \* upright

\* parity clauses added at (i,j); each reads (i,j) and one neighbour
ParityClauses(i, j, H, V, P, K, nr, nc) ==
    LET x == <<i, j>>
        l == <<i, j - 1>>
        r == <<i, j + 1>>
        u == <<i - 1, j>>
        d == <<i + 1, j>>
    IN  /\ (j > 0 /\ j < nc - 1) =>
            /\ l \in K => ((H[l][1] /\ H[x][1]) => (P[l] = P[x]))    \* rightright
            /\ r \in K => ((H[r][0] /\ H[x][0]) => (P[r] = P[x]))    \* leftleft
        /\ (i > 0 /\ i < nr - 1) =>
            /\ u \in K => ((V[u][0] /\ V[x][0]) => (P[u] = P[x]))    \* downdown
            /\ d \in K => ((V[d][1] /\ V[x][1]) => (P[d] = P[x]))    \* upup
        /\ (j < nc - 1 /\ i > 0) =>
            /\ r \in K => ((H[r][0] /\ V[x][1]) => (P[r] = P[x]))    \* leftup
            /\ u \in K => ((V[u][0] /\ H[x][1]) => (P[u] = P[x]))    \* downright
        /\ (i < nr - 1 /\ j > 0) =>
            /\ d \in K => ((V[d][1] /\ H[x][0]) => (P[d] = P[x]))    \* upleft
            /\ l \in K => ((H[l][1] /\ V[x][0]) => (P[l] = P[x]))    \* rightdown
        /\ (i > 0 /\ j > 0) =>
            /\ u \in K => ((V[u][0] /\ H[x][0]) => (P[u] = P[x]))    \* downleft
            /\ l \in K => ((H[l][1] /\ V[x][1]) => (P[l] # P[x]))    \* rightup
        /\ (j < nc - 1 /\ i < nr - 1) =>
            /\ r \in K => ((H[r][0] /\ V[x][0]) => (P[r] = P[x]))    \* leftdown
            /\ d \in K => ((V[d][1] /\ H[x][1]) => (P[d] # P[x]))    \* upright

\* the domain of (i,j): the 3x3 block centred at (i,j), clipped to the grid
Domain(i, j, nr, nc) ==
    {y \in Cells(nr, nc) : y[1] >= i - 1 /\ y[1] < i + 2
                           /\ y[2] >= j - 1 /\ y[2] < j + 2}

\* PbEq([(cell, 1) for cell in domain], k): the Not forgotten
PbEqUnshaded(i, j, C, k, nr, nc) ==
    Cardinality({y \in Domain(i, j, nr, nc) : C[y]}) = k

\* PbEq([(Not(cell), 1) for cell in domain], k)
PbEqShaded(i, j, C, k, nr, nc) ==
    Cardinality({y \in Domain(i, j, nr, nc) : ~C[y]}) = k

\* clue clauses added at (i,j)
ClueClauses(g, i, j, C, nr, nc) ==
    LET x == <<i, j>>
    IN  g[x] = NoClue \/
        /\ ~C[x] \/ PbEqShaded(i, j, C, g[x], nr, nc)
        /\ C[x] \/ ~PbEqShaded(i, j, C, g[x], nr, nc)

\* the clauses of add_constraints that read the shading only
ShadingClauses(g, C, nr, nc) ==
    /\ RootClause(C)
    /\ \A x \in Cells(nr, nc) :
          /\ NeighborClauses(x[1], x[2], C, nr, nc)
          /\ ClueClauses(g, x[1], x[2], C, nr, nc)

\* the clauses added at x that read H, V or P, as far as K assigns them;
\* par: whether the parity clauses are part of the formula
AuxClausesAt(x, C, H, V, P, K, par, nr, nc) ==
    /\ TreeClausesOwn(x[1], x[2], C, H, V, nr, nc)
    /\ TreeClausesPair(x[1], x[2], H, V, K, nr, nc)
    /\ par => ParityClauses(x[1], x[2], H, V, P, K, nr, nc)

AssignedNeighbors(x, K) ==
    {y \in K : \/ y[1] = x[1] /\ (y[2] = x[2] - 1 \/ y[2] = x[2] + 1)
               \/ y[2] = x[2] /\ (y[1] = x[1] - 1 \/ y[1] = x[1] + 1)}

RECURSIVE InOrder(_, _)
\* the cells of S as a sequence, in the order of the nested loops
InOrder(S, nc) ==
    IF S = {} THEN <<>>
    ELSE CHOOSE out \in
            {<<x>> \o InOrder(S \ {x}, nc) : x \in {FirstCell(S, nc)}} : TRUE

\* the values of (H[x], V[x]) that the clauses reading x alone allow
OwnValues(x, C, nr, nc) ==
    {hv \in Edge \X Edge :
        TreeClausesOwn(x[1], x[2], C, [y \in {x} |-> hv[1]],
                       [y \in {x} |-> hv[2]], nr, nc)}

RECURSIVE Extend(_, _, _, _, _, _, _, _, _, _)
\* the solver's search: whether the assignment of the cells K extends to
\* the cells order[n..] so that every clause holds; a is the assignment
\* <<H, V, P, K>> with the cell order[n] added
Extend(order, n, C, H, V, P, K, par, nr, nc) ==
    IF n > Len(order) THEN TRUE
    ELSE \E x \in {order[n]} :
         \E hv \in OwnValues(x, C, nr, nc) : \E p \in BOOLEAN :
         \E a \in {<<[H EXCEPT ![x] = hv[1]], [V EXCEPT ![x] = hv[2]],
                     [P EXCEPT ![x] = p], K \cup {x}>>} :
            /\ \A y \in {x} \cup AssignedNeighbors(x, K) :
                  AuxClausesAt(y, C, a[1], a[2], a[3], a[4], par, nr, nc)
            /\ Extend(order, n + 1, C, a[1], a[2], a[3], a[4], par, nr, nc)

\* slv.check() == sat with the C variables fixed to the shading C: some H, V
\* and P satisfy every clause of add_constraints
Satisfiable(g, C, par, nr, nc) ==
    /\ ShadingClauses(g, C, nr, nc)
    /\ \A x \in Cells(nr, nc) : OwnValues(x, C, nr, nc) # {}
    /\ \E order \in {InOrder({x \in Cells(nr, nc) : C[x]}, nc)
                       \o InOrder({x \in Cells(nr, nc) : ~C[x]}, nc)} :
       \E none \in {[x \in Cells(nr, nc) |-> NoEdge]} :
       \E false \in {[x \in Cells(nr, nc) |-> FALSE]} :
          Extend(order, 1, C, none, none, false, {}, par, nr, nc)

----------------------------------------------------------------------------
(* The inputs *)

Clues == {NoClue} \cup (0 .. MaxClue)

Blank(nr, nc) == [x \in Cells(nr, nc) |-> NoClue]

\* the grids of nr x nc cells the model explores
Grids(nr, nc) ==
    IF nr * nc <= MaxRunCells THEN [Cells(nr, nc) -> Clues]
    ELSE {Blank(nr, nc)}
         \cup {[Blank(nr, nc) EXCEPT ![x] = k] : x \in Cells(nr, nc), k \in 0 .. MaxClue}

VerifyIdle ==
    /\ Cin = <<>> /\ allow_weak = FALSE /\ vpc = "idle" /\ err = NoError
    /\ root = <<0, 0>> /\ totalcount = 0 /\ reached = {} /\ work = {}
    /\ enc = "none"

VerifyUnchanged ==
    UNCHANGED <<Cin, allow_weak, vpc, root, totalcount, reached, work, enc>>

----------------------------------------------------------------------------
(* smull.py: the main program *)

\* nothing printed after the loop yet
NoReport == [line |-> "", n |-> 0]

\* the lines after the loop: "# No solution found" if num_solutions == 0,
\* else f"# Total solutions found: {num_solutions}"
FinalReport(n) ==
    IF n = 0 THEN [line |-> "# No solution found", n |-> 0]
    ELSE [line |-> "# Total solutions found: ", n |-> n]

\* the state after parse_command, get_grid and check_grid
Init ==
    /\ nrow \in 1 .. MaxRow
    /\ ncol \in 1 .. MaxCol
    /\ nrow * ncol <= MaxRunCells
    /\ grid \in Grids(nrow, ncol)
    /\ slimit \in {NoLimit} \cup (0 .. MaxLimit)
    /\ pc = "start"
    /\ slv = {}
    /\ num_solutions = 0
    /\ emitted = <<>>
    /\ verified = {}
    /\ report = NoReport
    /\ VerifyIdle

\* the blocking clause joined with And in place of Or
BlockAnd(C, Cbool, nr, nc) == \A x \in Cells(nr, nc) : C[x] # Cbool[x]

\* the blocking clause written with == in place of !=
BlockEqual(C, Cbool, nr, nc) == \E x \in Cells(nr, nc) : C[x] = Cbool[x]

\* Or([C[i][j] != is_true(mdl.eval(C[i][j])) ...]): whether the shading C
\* satisfies the clause that blocks the model Cbool
BlockClause(C, Cbool, nr, nc) == \E x \in Cells(nr, nc) : C[x] # Cbool[x]

\* slv.add(Or(block)) left out
BlockOmitted(S, Cbool, nr, nc) == S

\* the members of S that satisfy the clause blocking Cbool, enumerated
Blocked(S, Cbool, nr, nc) ==
    {D : D \in {C \in S : BlockClause(C, Cbool, nr, nc)}}

\* the shadings the formula of add_constraints admits, enumerated
Admitted(g, nr, nc) ==
    {D : D \in {C \in Shadings(nr, nc) : Satisfiable(g, C, TRUE, nr, nc)}}

\* add_constraints(grid, slv, C, H, V, P): C[0][1] does not exist on a grid
\* of one column and the first slv.add raises IndexError
AddConstraints ==
    /\ pc = "start"
    /\ IF ncol < 2
       THEN /\ pc' = "crashed"
            /\ slv' = slv
       ELSE /\ pc' = "loop"
            /\ slv' = Admitted(grid, nrow, ncol)
    /\ UNCHANGED <<nrow, ncol, grid, slimit, num_solutions, emitted, verified,
                   report, err>>
    /\ VerifyUnchanged

\* if slimit is not None and num_solutions >= slimit: break
CapReached(n, cap) == cap # NoLimit /\ n >= cap

\* the iteration without the call of verify
BodyUnverified(Cbool) ==
    /\ emitted' = Append(emitted, Cbool)
    /\ num_solutions' = num_solutions + 1
    /\ UNCHANGED <<err, verified>>
    /\ IF CapReached(num_solutions + 1, slimit)
       THEN /\ pc' = "done"
            /\ slv' = slv
            /\ report' = FinalReport(num_solutions + 1)
       ELSE /\ pc' = "loop"
            /\ slv' = Blocked(slv, Cbool, nrow, ncol)
            /\ report' = report

\* one iteration of  while slv.check() == sat  for the model Cbool; the break
\* at the cap goes on to the lines after the loop
Body(Cbool) ==
    LET e == verify(grid, Cbool, FALSE, nrow, ncol)
    IN  IF e # NoError
        THEN /\ pc' = "raised"
             /\ err' = e
             /\ UNCHANGED <<slv, num_solutions, emitted, verified, report>>
        ELSE /\ verified' = verified \cup {Cbool}
             /\ emitted' = Append(emitted, Cbool)
             /\ num_solutions' = num_solutions + 1
             /\ err' = err
             /\ IF CapReached(num_solutions + 1, slimit)
                THEN /\ pc' = "done"
                     /\ slv' = slv
                     /\ report' = FinalReport(num_solutions + 1)
                ELSE /\ pc' = "loop"
                     /\ slv' = Blocked(slv, Cbool, nrow, ncol)
                     /\ report' = report

\* solve_and_print: the oracle reports sat and returns some model
Iterate ==
    /\ pc = "loop"
    /\ slv # {}
    /\ num_solutions < MaxSolutions
    /\ \E Cbool \in slv : Body(Cbool)
    /\ UNCHANGED <<nrow, ncol, grid, slimit>>
    /\ VerifyUnchanged

\* solve_and_print: the oracle reports unsat, the loop ends and the lines
\* after the loop print
Exhausted ==
    /\ pc = "loop"
    /\ slv = {}
    /\ pc' = "done"
    /\ report' = FinalReport(num_solutions)
    /\ UNCHANGED <<nrow, ncol, grid, slimit, slv, num_solutions, emitted, verified, err>>
    /\ VerifyUnchanged

Next == AddConstraints \/ Iterate \/ Exhausted

Spec == Init /\ [][Next]_vars

\* the loop is sequential code: an enabled step is eventually taken
FairSpec == Spec /\ WF_vars(Next)

----------------------------------------------------------------------------
(* verify and the encoder on one grid and one shading, verify step by step *)

ProgramIdle ==
    /\ slimit = NoLimit /\ pc = "idle" /\ slv = {} /\ num_solutions = 0
    /\ emitted = <<>> /\ verified = {} /\ report = NoReport

ProgramUnchanged ==
    UNCHANGED <<nrow, ncol, grid, slimit, pc, slv, num_solutions, emitted, verified,
                report>>

\* a grid and a manually constructed shading of it
InitV ==
    /\ nrow \in 1 .. MaxRow
    /\ ncol \in 1 .. MaxCol
    /\ nrow * ncol <= MaxCells
    /\ grid \in Grids(nrow, ncol)
    /\ Cin \in Shadings(nrow, ncol)
    /\ allow_weak = FALSE
    /\ vpc = "start"
    /\ err = NoError
    /\ root = <<0, 0>>
    /\ totalcount = 0
    /\ reached = {}
    /\ work = {}
    /\ enc = "none"
    /\ ProgramIdle

\* add_constraints on a fresh solver, the C variables fixed to Cin, and
\* slv.check()
SolveFixed ==
    /\ vpc = "start"
    /\ enc' = IF ncol < 2 THEN "IndexError"
              ELSE IF Satisfiable(grid, Cin, TRUE, nrow, ncol) THEN "sat"
              ELSE "unsat"
    /\ vpc' = "call"
    /\ UNCHANGED <<Cin, allow_weak, err, root, totalcount, reached, work>>
    /\ ProgramUnchanged

\* verify(grid, Cin, allow_weak) from its entry to the first iteration of
\* the while loop
VerifyEnter ==
    /\ vpc = "call"
    /\ \E weak \in BOOLEAN :
          /\ allow_weak' = weak
          /\ LET e == VerifyPrefix(grid, Cin, nrow, ncol)
             IN  IF e # NoError
                 THEN /\ vpc' = "raised"
                      /\ err' = e
                      /\ UNCHANGED <<root, totalcount, reached, work>>
                 ELSE /\ root' = RootOf(Cin)
                      /\ totalcount' = TotalCount(Cin, nrow, ncol)
                      /\ err' = err
                      /\ IF weak
                         THEN /\ vpc' = "returned"
                              /\ UNCHANGED <<reached, work>>
                         ELSE /\ vpc' = "while"
                              /\ reached' = {}
                              /\ work' = {RootOf(Cin)}
    /\ UNCHANGED <<Cin, enc>>
    /\ ProgramUnchanged

\* one iteration of the while loop: work.pop() returns any element
VerifyPop ==
    /\ vpc = "while"
    /\ work # {}
    /\ \E current \in work :
          /\ reached' = reached \cup {current}
          /\ work' = WorkAfter(current, reached, work, Cin, nrow, ncol)
    /\ UNCHANGED <<Cin, allow_weak, vpc, err, root, totalcount, enc>>
    /\ ProgramUnchanged

\* the while loop ends; the count of reached cells is compared
VerifyExit ==
    /\ vpc = "while"
    /\ work = {}
    /\ IF Cardinality(reached) # totalcount
       THEN /\ vpc' = "raised"
            /\ err' = ReachedError(Cardinality(reached), totalcount)
       ELSE /\ vpc' = "returned"
            /\ err' = err
    /\ UNCHANGED <<Cin, allow_weak, root, totalcount, reached, work, enc>>
    /\ ProgramUnchanged

NextV == SolveFixed \/ VerifyEnter \/ VerifyPop \/ VerifyExit

SpecV == InitV /\ [][NextV]_vars

----------------------------------------------------------------------------
(* The rules of the puzzle, stated on the shading alone *)

Adjacent(x, y) ==
    \/ x[1] = y[1] /\ (x[2] = y[2] + 1 \/ y[2] = x[2] + 1)
    \/ x[2] = y[2] /\ (x[1] = y[1] + 1 \/ y[1] = x[1] + 1)

Unshaded(C, nr, nc) == {x \in Cells(nr, nc) : C[x]}

RECURSIVE Region(_, _, _, _)
\* the unshaded cells joined to S through edge-adjacent unshaded cells
Region(S, C, nr, nc) ==
    LET T == S \cup {y \in Unshaded(C, nr, nc) : \E x \in S : Adjacent(x, y)}
    IN  IF T = S THEN S ELSE Region(T, C, nr, nc)

HasShadedPair(C, nr, nc) ==
    \E x, y \in Cells(nr, nc) : Adjacent(x, y) /\ ~C[x] /\ ~C[y]

ShadedIn(x, C, nr, nc) ==
    Cardinality({y \in Cells(nr, nc) :
                    /\ y[1] - x[1] \in {-1, 0, 1}
                    /\ y[2] - x[2] \in {-1, 0, 1}
                    /\ ~C[y]})

CluesRight(g, C, nr, nc) ==
    \A x \in Cells(nr, nc) :
        g[x] # NoClue => (C[x] <=> (g[x] = ShadedIn(x, C, nr, nc)))

\* the unshaded cells form one connected region containing (0,0) or (0,1)
OneRegion(C, nr, nc) ==
    \E r \in {<<0, 0>>, <<0, 1>>} \cap Unshaded(C, nr, nc) :
        Region({r}, C, nr, nc) = Unshaded(C, nr, nc)

ValidShading(g, C, nr, nc) ==
    /\ ~HasShadedPair(C, nr, nc)
    /\ CluesRight(g, C, nr, nc)
    /\ OneRegion(C, nr, nc)

----------------------------------------------------------------------------
(* The claims *)

\* C1: on a grid of at least two columns, the formula of add_constraints is
\* satisfiable with the C variables fixed to a shading exactly when verify
\* with allow_weak=False returns on that shading, and exactly when the
\* shading has no two edge-adjacent shaded cells, right clues and one
\* connected unshaded region containing (0,0) or (0,1).
C1_EncoderAgreesWithVerify ==
    (enc # "none" /\ ncol >= 2) =>
        /\ (enc = "sat") <=> (verify(grid, Cin, FALSE, nrow, ncol) = NoError)
        /\ (enc = "sat") <=> ValidShading(grid, Cin, nrow, ncol)

\* C1 witness: a shading that every clause on C alone accepts, and that the
\* arrow and parity clauses and verify's traversal both reject
C1_Witness ==
    /\ ncol >= 2
    /\ enc = "unsat"
    /\ ShadingClauses(grid, Cin, nrow, ncol)
    /\ vpc = "raised"
    /\ err.kind = "reached cells instead of"
    /\ \E x \in Cells(nrow, ncol) :
          /\ x[1] + 1 < nrow /\ x[2] + 1 < ncol
          /\ \A y \in {x, <<x[1] + 1, x[2]>>, <<x[1], x[2] + 1>>, <<x[1] + 1, x[2] + 1>>} :
                Cin[y] /\ y \notin reached

\* C2: every shading solve_and_print has emitted was passed to verify with
\* allow_weak=False before, and verify returned on it; once verify has
\* raised, nothing more is emitted.
C2_EmittedWereVerified ==
    /\ [](\A k \in 1 .. Len(emitted) :
             /\ emitted[k] \in verified
             /\ verify(grid, emitted[k], FALSE, nrow, ncol) = NoError)
    /\ [](Len(emitted) = num_solutions)
    /\ [][pc = "raised" => emitted' = emitted]_vars

\* C2 witness: a run that emitted two shadings, one with a shaded cell
C2_Witness ==
    /\ pc = "done"
    /\ Len(emitted) >= 2
    /\ \E x \in Cells(nrow, ncol) : ~emitted[2][x]

\* C3: no two shadings emitted in one run are equal.
C3_EmittedDistinct ==
    \A k, l \in 1 .. Len(emitted) : k # l => emitted[k] # emitted[l]

\* C3 witness: three shadings emitted after two blocking clauses
C3_Witness == Len(emitted) >= 3 /\ pc = "loop"

\* C4: with a cap, the number of emitted shadings never exceeds the cap,
\* a cap of 0 included.
C4_CountWithinCap == slimit # NoLimit => Len(emitted) <= slimit

Terminated == pc \in {"done", "raised", "crashed"}

\* C5: the run leaves the solve loop: every iteration that continues
\* removes at least one shading from those the solver admits and adds none,
\* and the loop eventually ends.
C5_LoopTerminates ==
    /\ <>Terminated
    /\ [][(pc = "loop" /\ pc' = "loop") =>
            (slv' \subseteq slv /\ slv' # slv)]_vars

\* C5 witness: a run without cap that ended after three blocking clauses
C5_Witness ==
    pc = "done" /\ slimit = NoLimit /\ slv = {} /\ Len(emitted) >= 3

\* the run of the 1x2 grid [[0, None]] without cap
IsC6Run ==
    /\ nrow = 1 /\ ncol = 2
    /\ grid = (<<0, 0>> :> 0 @@ <<0, 1>> :> NoClue)
    /\ slimit = NoLimit

BothUnshaded == (<<0, 0>> :> TRUE @@ <<0, 1>> :> TRUE)

LeftShaded == (<<0, 0>> :> FALSE @@ <<0, 1>> :> TRUE)

\* C6 as claimed: on [[0, None]] only C=[true,true] is reported.
C6_OnlyAllUnshaded ==
    IsC6Run => \A k \in 1 .. Len(emitted) : emitted[k] = BothUnshaded

\* C6 amended: on [[0, None]] run to exhaustion the solver reports exactly
\* [true,true] and [false,true]; [true,false] and [false,false] are rejected.
C6_TwoShadings ==
    IsC6Run =>
        /\ \A k \in 1 .. Len(emitted) : emitted[k] \in {BothUnshaded, LeftShaded}
        /\ pc \notin {"start", "loop"} =>
              /\ pc = "done"
              /\ {emitted[k] : k \in 1 .. Len(emitted)} = {BothUnshaded, LeftShaded}

\* C6 witness: the exhausted run of [[0, None]]
C6_Witness == IsC6Run /\ pc = "done" /\ Len(emitted) = 2

\* C7: the 1x1 grid with clue 0 is encoded and solved without error and
\* zero solutions are reported.
C7_OneByOneCompletes ==
    (nrow = 1 /\ ncol = 1 /\ grid[<<0, 0>>] = 0) =>
        /\ pc \notin {"crashed", "raised"}
        /\ pc = "done" => num_solutions = 0

Called == vpc \in {"raised", "returned", "while"}

Names(e, z) == \E k \in 1 .. Len(e.cells) : e.cells[k] = z

\* C8 as claimed: a shading with two edge-adjacent shaded cells fails with
\* the adjacency error, which names both cells of an offending pair.
C8_NamesBothCells ==
    (Called /\ HasShadedPair(Cin, nrow, ncol)) =>
        /\ vpc = "raised"
        /\ err.kind = "adjacent shaded cells"
        /\ \E x, y \in Cells(nrow, ncol) :
              /\ Adjacent(x, y) /\ ~Cin[x] /\ ~Cin[y]
              /\ Names(err, x) /\ Names(err, y)

\* C8 amended: a shading with two edge-adjacent shaded cells fails with the
\* adjacency error before any clue or connectivity check, and the error
\* names one cell: the left cell of a shaded horizontal pair or the upper
\* cell of a shaded vertical pair.
C8_NamesFirstCell ==
    (Called /\ HasShadedPair(Cin, nrow, ncol)) =>
        /\ vpc = "raised"
        /\ err.kind = "adjacent shaded cells"
        /\ reached = {} /\ work = {}
        /\ Len(err.cells) = 1
        /\ LET z == err.cells[1]
           IN  /\ z \in Cells(nrow, ncol)
               /\ ~Cin[z]
               /\ \/ z[2] + 1 < ncol /\ ~Cin[<<z[1], z[2] + 1>>]
                  \/ z[1] + 1 < nrow /\ ~Cin[<<z[1] + 1, z[2]>>]

\* C8 witness: two adjacent shaded cells and a wrong clue; the adjacency
\* error is the one raised
C8_Witness ==
    /\ vpc = "raised"
    /\ HasShadedPair(Cin, nrow, ncol)
    /\ ClueCheck(grid, Cin, nrow, ncol) # NoError

PassesLocalChecks ==
    /\ vpc \in {"raised", "returned"}
    /\ AdjacencyCheck(Cin, nrow, ncol) = NoError
    /\ ClueCheck(grid, Cin, nrow, ncol) = NoError

\* C9: on a shading that passes the adjacency and clue checks, verify with
\* allow_weak=False ends its traversal with reached the unshaded cells
\* joined to the unshaded root among (0,0), (0,1), and raises the
\* reached-versus-total error exactly when the unshaded cells are not one
\* connected region.
C9_TraversalDecides ==
    (PassesLocalChecks /\ ~allow_weak) =>
        /\ \E r \in {<<0, 0>>, <<0, 1>>} \cap Unshaded(Cin, nrow, ncol) :
              /\ root = r
              /\ reached = Region({r}, Cin, nrow, ncol)
        /\ (vpc = "raised") <=> (reached # Unshaded(Cin, nrow, ncol))
        /\ (vpc = "raised") =>
              err = ReachedError(Cardinality(reached),
                                 Cardinality(Unshaded(Cin, nrow, ncol)))

\* C10: with allow_weak=True, every shading of a grid of at least one row
\* and one column that passes the adjacency and clue checks makes verify
\* return.
C10_WeakReturns ==
    (PassesLocalChecks /\ allow_weak) => (vpc = "returned" /\ err = NoError)

----------------------------------------------------------------------------
(* C11: truncated and exhausted runs *)

\* the loop ended at the break: the model just printed is not blocked and the
\* store still admits it
Truncated == pc = "done" /\ slv # {}

\* the loop ended because slv.check() was not sat
SearchExhausted == pc = "done" /\ slv = {}

\* C11: when the loop stops at the cap, the reported outcome differs from the
\* outcome an exhausted search reports after the same number of solutions,
\* which is FinalReport(num_solutions).
C11_TruncationDistinct ==
    Truncated => report # FinalReport(num_solutions)

\* the run of [[0, None]] with the cap 2, stopped at the cap
C11_TruncatedAtTwo ==
    /\ nrow = 1 /\ ncol = 2
    /\ grid = (<<0, 0>> :> 0 @@ <<0, 1>> :> NoClue)
    /\ slimit = 2 /\ Truncated
    /\ emitted = <<BothUnshaded, LeftShaded>>
    /\ report = FinalReport(2)

\* the run of [[0, None]] without a cap, exhausted, with the same output
C11_ExhaustedAtTwo ==
    /\ IsC6Run /\ slimit = NoLimit /\ SearchExhausted
    /\ emitted = <<BothUnshaded, LeftShaded>>
    /\ report = FinalReport(2)

----------------------------------------------------------------------------
(* C12: the runs of the loop on one grid with one cap *)

RECURSIVE EmittedSets(_, _, _, _, _, _, _)
\* solve_and_print from the store S with the shadings E printed and
\* num_solutions = n: the sets of shadings its runs print, one run for every
\* model slv.model() may return at every iteration
EmittedSets(g, S, E, n, cap, nr, nc) ==
    IF S = {} THEN {E}
    ELSE UNION {IF verify(g, Cbool, FALSE, nr, nc) # NoError THEN {E}
                ELSE IF CapReached(n + 1, cap) THEN {E \cup {Cbool}}
                ELSE EmittedSets(g, Blocked(S, Cbool, nr, nc), E \cup {Cbool},
                                 n + 1, cap, nr, nc) : Cbool \in S}

\* add_constraints and solve_and_print run again on the grid g with the cap
\* cap: the sets of shadings the runs print
Reruns(g, cap, nr, nc) ==
    IF nc < 2 THEN {{}}
    ELSE EmittedSets(g, Admitted(g, nr, nc), {}, 0, cap, nr, nc)

EmittedSet == {emitted[k] : k \in 1 .. Len(emitted)}

\* C12: a finished run has printed the set of shadings that every other run
\* on the same grid with the same cap prints, whatever models the oracle
\* returns.
C12_SameSetEveryOrder ==
    Terminated => \A E \in Reruns(grid, slimit, nrow, ncol) : E = EmittedSet

\* C12 amended: without a cap, or with a cap that is at least the number of
\* admitted shadings, every run on the same grid with the same cap prints
\* the same set, the set of all admitted shadings, whatever models the
\* oracle returns.
C12_SameSetWhenNotTruncating ==
    (Terminated
       /\ (ncol < 2 \/ slimit = NoLimit
             \/ Cardinality(Admitted(grid, nrow, ncol)) <= slimit))
    => /\ ncol >= 2 => EmittedSet = Admitted(grid, nrow, ncol)
       /\ Reruns(grid, slimit, nrow, ncol) = {EmittedSet}

\* a run with the cap 2 on a grid of two admitted shadings has printed both
C12_Witness ==
    /\ pc = "done" /\ ncol >= 2 /\ slimit = 2
    /\ Cardinality(Admitted(grid, nrow, ncol)) = 2
    /\ Cardinality(EmittedSet) = 2

----------------------------------------------------------------------------
(* C13: the formula without the parity clauses *)

\* add_constraints with the parity clauses left out, the C variables fixed
\* to C, and slv.check()
EncNoParity(g, C, nr, nc) ==
    IF nc < 2 THEN "IndexError"
    ELSE IF Satisfiable(g, C, FALSE, nr, nc) THEN "sat"
    ELSE "unsat"

\* C13: for every grid, the full formula is satisfiable on a shading exactly
\* when the formula without the parity clauses is: leaving them out admits no
\* shading the full encoding rejects.  (Stated where the solver has just
\* answered; grid, Cin and enc do not change afterwards.)
C13_ParityPureOptimisation ==
    vpc = "call" =>
        ((enc = "sat") <=> (EncNoParity(grid, Cin, nrow, ncol) = "sat"))

\* C13 amended: the full formula is satisfiable on a shading exactly when the
\* formula without the parity clauses is satisfiable on it and its unshaded
\* cells form one region; the shadings the parity clauses reject are those
\* the other clauses accept with disconnected unshaded cells.
C13_ParityRejectsDisconnected ==
    vpc = "call" =>
        ((enc = "sat") <=> (/\ EncNoParity(grid, Cin, nrow, ncol) = "sat"
                            /\ OneRegion(Cin, nrow, ncol)))

\* a shading the formula without the parity clauses admits and the full
\* formula rejects: its unshaded cells are not one region
C13_Witness ==
    /\ vpc = "call"
    /\ enc = "unsat"
    /\ EncNoParity(grid, Cin, nrow, ncol) = "sat"
    /\ ~OneRegion(Cin, nrow, ncol)

====
